---- MODULE Spec2Model ----
(***************************************************************************)
(* Model of chefskiss/agent.py: the two tool functions find_recipies and   *)
(* calculate_recipe_macros over the module-level catalogs RECIPES_DB and   *)
(* MACROS_DB.                                                              *)
(*                                                                         *)
(* Strings are sequences of code points, so that str.lower() is computed   *)
(* and not assumed.  A dict is a record/function; dict.get(k) is a test of *)
(* k \in DOMAIN.  Nutrient totals are held exactly, in hundredths of a     *)
(* unit: every weight of the model is a multiple of 25 g, for which        *)
(* weight / 100.0, the products and the sums are exact binary fractions,   *)
(* and round(value, 1) of an exact double rounds a tie to the even digit.  *)
(* A result of calculate_recipe_macros is held in tenths.                  *)
(***************************************************************************)
EXTENDS Integers, Sequences, FiniteSets, TLC

VARIABLES
    RECIPES_DB,     \* agent.py:23  list of recipe records
    MACROS_DB,      \* agent.py:24  dict: lowercase ingredient name -> macros per 100 g
    call,           \* the last tool call of the recommender agent and what it returned
    pending,        \* names find_recipies returned that the agent has still to look up
    pc,             \* per thread: position inside a running tool call
    args,           \* per thread: the arguments of the running call
    locals,         \* per thread: the local variables of the running call
    ret             \* per thread: what the finished call returned

vars == <<RECIPES_DB, MACROS_DB, call, pending, pc, args, locals, ret>>

---------------------------------------------------------------------------
(* Bounds of the model *)

MaxRecipes == 2        \* records in a catalog of single-ingredient recipes
MaxIngredients == 2    \* ingredient entries of the recipe of a one-recipe catalog
MaxAvailable == 2      \* length of the list passed to find_recipies
MaxMissing == 2        \* max_missing ranges over -1 .. MaxMissing
NumThreads == 2        \* concurrent callers

---------------------------------------------------------------------------
(* Strings *)

\* "eg", "Eg", "EG"; the dotless i (U+0131), "I" and "i"; "Om", "OM", "om", "X"
eg == <<101, 103>>
Eg == <<69, 103>>
EG == <<69, 71>>
dotless == <<305>>
capI == <<73>>
Om == <<79, 109>>
OM == <<79, 77>>
om == <<111, 109>>
Xx == <<88>>

IsAsciiUpper(c) == c >= 65 /\ c <= 90
IsAsciiLower(c) == c >= 97 /\ c <= 122

\* str.lower() on one code point: A-Z map to a-z; U+0131 is lowercase already
LowerChar(c) == IF IsAsciiUpper(c) THEN c + 32 ELSE c

\* str.lower()
Lower(s) == [i \in 1..Len(s) |-> LowerChar(s[i])]

---------------------------------------------------------------------------
(* Catalogs the program may have loaded *)

Ingredient(n, w) == [name |-> n, weight_grams |-> w]
IngredientNoWeight(n) == [name |-> n]

\* Ingredient entries of a recipe record: usable ones, the same ingredient in
\* another case, an empty name, an absent weight, a zero weight.
IngredientPool ==
    { Ingredient(eg, 150), Ingredient(Eg, 75), Ingredient(<<>>, 75),
      IngredientNoWeight(dotless), Ingredient(dotless, 0), Ingredient(dotless, 75) }

SingleIngredientPool == { Ingredient(eg, 150), Ingredient(dotless, 75) }

RecipeNames == {Om, OM}

SeqsUpTo(S, n) == UNION {[1..k -> S] : k \in 0..n}

\* up to MaxRecipes records of at most one ingredient each
WideCatalogs ==
    SeqsUpTo({[name |-> n, ingredients |-> l] :
                 n \in RecipeNames, l \in SeqsUpTo(SingleIngredientPool, 1)},
             MaxRecipes)

\* one record of up to MaxIngredients entries
DeepCatalogs ==
    {<<[name |-> Om, ingredients |-> l]>> : l \in SeqsUpTo(IngredientPool, MaxIngredients)}

Catalogs == WideCatalogs \cup DeepCatalogs

EggMacros == [protein |-> 13, carbs |-> 1, fat |-> 11, calories |-> 155]
PartialMacros == [protein |-> 3, carbs |-> 2]

NutrientTables ==
    { (eg :> EggMacros), (eg :> EggMacros) @@ (dotless :> PartialMacros) }

---------------------------------------------------------------------------
(* Values passed by the caller *)

Str(s) == [str |-> s]
NonStr == [int |-> 7]
IsStr(x) == "str" \in DOMAIN x

AvailablePool == {Str(EG), Str(dotless), Str(<<>>), NonStr}
AvailableLists == SeqsUpTo(AvailablePool, MaxAvailable)
MaxMissingValues == (-1)..MaxMissing
RecipeQueries == {Om, OM, om, Xx}

---------------------------------------------------------------------------
(* find_recipies, agent.py:119-146 *)

Range(s) == {s[i] : i \in 1..Len(s)}

\* the names taken as typed: ingredient.lower() forgotten
available_set_raw(available_ingredients) ==
    {x.str : x \in Range(available_ingredients)}

\* line 132: set(ingredient.lower() for ingredient in available_ingredients)
available_set(available_ingredients) ==
    {Lower(x.str) : x \in Range(available_ingredients)}

\* lines 136-138
required_set(recipe) == {Lower(ingredient.name) : ingredient \in Range(recipe.ingredients)}

\* symmetric difference: what the user has and the recipe does not use counts too
missing_ingredients_symmetric(recipe, available) ==
    (required_set(recipe) \ available) \cup (available \ required_set(recipe))

\* line 141
missing_ingredients(recipe, available) == required_set(recipe) \ available

\* < for <=
Matches_less(recipe, available, max_missing) ==
    Cardinality(missing_ingredients(recipe, available)) < max_missing

\* == for <=
Matches_exactly(recipe, available, max_missing) ==
    Cardinality(missing_ingredients(recipe, available)) = max_missing

\* a list for the set: every missing entry counts, duplicates too
Matches_by_entries(recipe, available, max_missing) ==
    Cardinality({j \in 1..Len(recipe.ingredients) :
                    Lower(recipe.ingredients[j].name) \notin available}) <= max_missing

\* line 143
Matches(recipe, available, max_missing) ==
    Cardinality(missing_ingredients(recipe, available)) <= max_missing

\* lines 135-144, the loop over RECIPES_DB from record i on
RECURSIVE matching_recipes(_, _, _)
matching_recipes(i, available, max_missing) ==
    IF i > Len(RECIPES_DB) THEN <<>>
    ELSE (IF Matches(RECIPES_DB[i], available, max_missing)
          THEN <<RECIPES_DB[i].name>> ELSE <<>>)
         \o matching_recipes(i + 1, available, max_missing)

Raised(e) == [raise |-> e]
Returned(v) == [value |-> v]
IsReturned(r) == "value" \in DOMAIN r

\* a value that is no str is passed over
find_recipies_skipping(available_ingredients, max_missing) ==
    Returned(matching_recipes(1,
        available_set(SelectSeq(available_ingredients, IsStr)), max_missing))

\* ingredient.lower() on a value that is no str raises AttributeError (line 132)
find_recipies(available_ingredients, max_missing) ==
    IF \E x \in Range(available_ingredients) : ~IsStr(x)
    THEN Raised("AttributeError")
    ELSE Returned(matching_recipes(1, available_set(available_ingredients), max_missing))

---------------------------------------------------------------------------
(* calculate_recipe_macros, agent.py:149-202 *)

Macros == {"protein", "carbs", "fat", "calories"}
None == [none |-> TRUE]

\* the names compared as they are
target_recipe_data_exact(recipe) ==
    LET hits == {i \in 1..Len(RECIPES_DB) : RECIPES_DB[i].name = recipe}
    IN  IF hits = {} THEN 0 ELSE CHOOSE i \in hits : \A j \in hits : i <= j

\* lower() on the requested name alone
target_recipe_data_one_sided(recipe) ==
    LET hits == {i \in 1..Len(RECIPES_DB) : RECIPES_DB[i].name = Lower(recipe)}
    IN  IF hits = {} THEN 0 ELSE CHOOSE i \in hits : \A j \in hits : i <= j

\* lines 161-163: index of the first record whose name matches, 0 when there is none
target_recipe_data(recipe) ==
    LET hits == {i \in 1..Len(RECIPES_DB) : Lower(RECIPES_DB[i].name) = Lower(recipe)}
    IN  IF hits = {} THEN 0 ELSE CHOOSE i \in hits : \A j \in hits : i <= j

\* lines 178-184: not ingredient_name or not weight_grams
MissingData(ingredient_obj) ==
    \/ "name" \notin DOMAIN ingredient_obj
    \/ ingredient_obj.name = <<>>
    \/ "weight_grams" \notin DOMAIN ingredient_obj
    \/ ingredient_obj.weight_grams = 0

\* lines 186-190: MACROS_DB.get(ingredient_name.lower()) is None or empty
NoMacroData(ingredient_obj) ==
    \/ Lower(ingredient_obj.name) \notin DOMAIN MACROS_DB
    \/ DOMAIN MACROS_DB[Lower(ingredient_obj.name)] = {}

\* macros_per_100g.get(macro, 0)
MacroGet(macros_per_100g, macro) ==
    IF macro \in DOMAIN macros_per_100g THEN macros_per_100g[macro] ELSE 0

\* lines 177-199, one pass of the loop body: the totals (in hundredths) after
\* ingredient_obj
AddIngredient(total_macros, ingredient_obj) ==
    IF MissingData(ingredient_obj) THEN total_macros
    ELSE IF NoMacroData(ingredient_obj) THEN total_macros
    ELSE [macro \in Macros |->
            total_macros[macro]
            + MacroGet(MACROS_DB[Lower(ingredient_obj.name)], macro)
              * ingredient_obj.weight_grams]

\* lines 169-174
ZeroTotals == [macro \in Macros |-> 0]

\* break for continue: the first skipped entry ends the loop
RECURSIVE SumIngredients_break(_, _, _)
SumIngredients_break(ingredients, i, total_macros) ==
    IF i > Len(ingredients) THEN total_macros
    ELSE IF MissingData(ingredients[i]) \/ NoMacroData(ingredients[i]) THEN total_macros
    ELSE SumIngredients_break(ingredients, i + 1,
                              AddIngredient(total_macros, ingredients[i]))

\* lines 177-199, the loop from entry i on
RECURSIVE SumIngredients(_, _, _)
SumIngredients(ingredients, i, total_macros) ==
    IF i > Len(ingredients) THEN total_macros
    ELSE SumIngredients(ingredients, i + 1, AddIngredient(total_macros, ingredients[i]))

\* round(value, 1) of an exact value of h hundredths: the result in tenths, a
\* tie going to the even digit
Round1(h) ==
    LET q == h \div 10
        r == h % 10
    IN  IF r < 5 THEN q
        ELSE IF r > 5 THEN q + 1
        ELSE IF q % 2 = 0 THEN q ELSE q + 1

\* line 202
RoundTotals(total_macros) == [macro \in Macros |-> Round1(total_macros[macro])]

calculate_recipe_macros(recipe) ==
    LET t == target_recipe_data(recipe)
    IN  IF t = 0 THEN None
        ELSE RoundTotals(SumIngredients(RECIPES_DB[t].ingredients, 1, ZeroTotals))

---------------------------------------------------------------------------
(* The recommender agent: find_recipies once, then calculate_recipe_macros *)
(* for each name returned (RECIPE_RECOMMENDER_PROMPT, agent.py:82-88); a   *)
(* recipe the user names is looked up directly.                            *)

Threads == 1..NumThreads

NoCall == [op |-> "none"]

ThreadsIdle ==
    /\ pc = [t \in Threads |-> "idle"]
    /\ args = [t \in Threads |-> NoCall]
    /\ locals = [t \in Threads |-> <<>>]
    /\ ret = [t \in Threads |-> <<>>]

Init ==
    /\ RECIPES_DB \in Catalogs
    /\ MACROS_DB \in NutrientTables
    /\ call = NoCall
    /\ pending = <<>>
    /\ ThreadsIdle

\* the tool call find_recipies(available, max_missing)
FindRecipies ==
    /\ call = NoCall
    /\ \E available \in AvailableLists, max_missing \in MaxMissingValues :
          LET result == find_recipies(available, max_missing)
          IN  /\ call' = [op |-> "find_recipies", available |-> available,
                          max_missing |-> max_missing, result |-> result]
              /\ pending' = IF IsReturned(result) THEN result.value ELSE <<>>
    /\ UNCHANGED <<RECIPES_DB, MACROS_DB, pc, args, locals, ret>>

\* the tool call calculate_recipe_macros(name) for the next name find_recipies returned
MacrosOfReturned ==
    /\ pending # <<>>
    /\ call' = [op |-> "calculate_recipe_macros", recipe |-> Head(pending),
                returned_by_find |-> TRUE,
                result |-> calculate_recipe_macros(Head(pending))]
    /\ pending' = Tail(pending)
    /\ UNCHANGED <<RECIPES_DB, MACROS_DB, pc, args, locals, ret>>

\* the tool call calculate_recipe_macros(recipe) for a name the user gave
MacrosOfNamed ==
    /\ call = NoCall
    /\ \E recipe \in RecipeQueries :
          call' = [op |-> "calculate_recipe_macros", recipe |-> recipe,
                   returned_by_find |-> FALSE,
                   result |-> calculate_recipe_macros(recipe)]
    /\ UNCHANGED <<RECIPES_DB, MACROS_DB, pending, pc, args, locals, ret>>

Next == FindRecipies \/ MacrosOfReturned \/ MacrosOfNamed

Spec == Init /\ [][Next]_vars

---------------------------------------------------------------------------
(* Concurrent callers: each thread runs a tool call one loop pass at a     *)
(* time.  Every name assigned inside the two functions is a local of the   *)
(* running call; RECIPES_DB and MACROS_DB are the only shared objects.     *)

ConcCatalogs ==
    { <<[name |-> Om, ingredients |-> <<Ingredient(eg, 150), IngredientNoWeight(dotless)>>],
        [name |-> OM, ingredients |-> <<Ingredient(dotless, 75)>>]>>,
      <<[name |-> Om, ingredients |-> <<Ingredient(<<>>, 75), Ingredient(Eg, 75)>>]>> }

ConcAvailableLists == {<<>>, <<Str(EG)>>, <<NonStr>>}
ConcMaxMissingValues == {0, 1}
ConcRecipeQueries == {om, Xx}

InitConc ==
    /\ RECIPES_DB \in ConcCatalogs
    /\ MACROS_DB \in NutrientTables
    /\ call = NoCall
    /\ pending = <<>>
    /\ ThreadsIdle

\* lines 132-133: entering find_recipies
StartFind(t) ==
    /\ pc[t] = "idle"
    /\ \E available \in ConcAvailableLists, max_missing \in ConcMaxMissingValues :
          /\ args' = [args EXCEPT ![t] = [op |-> "find_recipies", available |-> available,
                                          max_missing |-> max_missing]]
          /\ IF \E x \in Range(available) : ~IsStr(x)
             THEN /\ ret' = [ret EXCEPT ![t] = Raised("AttributeError")]
                  /\ pc' = [pc EXCEPT ![t] = "done"]
                  /\ UNCHANGED locals
             ELSE /\ locals' = [locals EXCEPT ![t] =
                                  [available_set |-> available_set(available),
                                   i |-> 1, matching_recipes |-> <<>>]]
                  /\ pc' = [pc EXCEPT ![t] = "find_loop"]
                  /\ UNCHANGED ret
    /\ UNCHANGED <<RECIPES_DB, MACROS_DB, call, pending>>

\* lines 135-144: one pass of the loop over RECIPES_DB
FindPass(t) ==
    /\ pc[t] = "find_loop"
    /\ locals[t].i <= Len(RECIPES_DB)
    /\ LET recipe == RECIPES_DB[locals[t].i]
       IN  locals' = [locals EXCEPT ![t] =
                        [available_set |-> locals[t].available_set,
                         i |-> locals[t].i + 1,
                         matching_recipes |->
                            IF Matches(recipe, locals[t].available_set, args[t].max_missing)
                            THEN Append(locals[t].matching_recipes, recipe.name)
                            ELSE locals[t].matching_recipes]]
    /\ UNCHANGED <<RECIPES_DB, MACROS_DB, call, pending, pc, args, ret>>

\* line 146
FindReturn(t) ==
    /\ pc[t] = "find_loop"
    /\ locals[t].i > Len(RECIPES_DB)
    /\ ret' = [ret EXCEPT ![t] = Returned(locals[t].matching_recipes)]
    /\ pc' = [pc EXCEPT ![t] = "done"]
    /\ UNCHANGED <<RECIPES_DB, MACROS_DB, call, pending, args, locals>>

\* entering calculate_recipe_macros
StartMacros(t) ==
    /\ pc[t] = "idle"
    /\ \E recipe \in ConcRecipeQueries :
          args' = [args EXCEPT ![t] = [op |-> "calculate_recipe_macros", recipe |-> recipe]]
    /\ pc' = [pc EXCEPT ![t] = "lookup"]
    /\ UNCHANGED <<RECIPES_DB, MACROS_DB, call, pending, locals, ret>>

\* lines 161-174
MacrosLookup(t) ==
    /\ pc[t] = "lookup"
    /\ LET target == target_recipe_data(args[t].recipe)
       IN  IF target = 0
           THEN /\ ret' = [ret EXCEPT ![t] = None]
                /\ pc' = [pc EXCEPT ![t] = "done"]
                /\ UNCHANGED locals
           ELSE /\ locals' = [locals EXCEPT ![t] =
                                [target_recipe_data |-> target, i |-> 1,
                                 total_macros |-> ZeroTotals]]
                /\ pc' = [pc EXCEPT ![t] = "macros_loop"]
                /\ UNCHANGED ret
    /\ UNCHANGED <<RECIPES_DB, MACROS_DB, call, pending, args>>

\* total_macros as one dict shared by every running call
MacrosPass_shared(t) ==
    /\ pc[t] = "macros_loop"
    /\ LET ingredients == RECIPES_DB[locals[t].target_recipe_data].ingredients
           total == AddIngredient(locals[t].total_macros, ingredients[locals[t].i])
       IN  /\ locals[t].i <= Len(ingredients)
           /\ locals' = [u \in Threads |->
                           IF u = t
                           THEN [target_recipe_data |-> locals[t].target_recipe_data,
                                 i |-> locals[t].i + 1, total_macros |-> total]
                           ELSE IF pc[u] = "macros_loop"
                           THEN [target_recipe_data |-> locals[u].target_recipe_data,
                                 i |-> locals[u].i, total_macros |-> total]
                           ELSE locals[u]]
    /\ UNCHANGED <<RECIPES_DB, MACROS_DB, call, pending, pc, args, ret>>

\* lines 177-199: one pass of the loop over the recipe's ingredients
MacrosPass(t) ==
    /\ pc[t] = "macros_loop"
    /\ LET ingredients == RECIPES_DB[locals[t].target_recipe_data].ingredients
       IN  /\ locals[t].i <= Len(ingredients)
           /\ locals' = [locals EXCEPT ![t] =
                           [target_recipe_data |-> locals[t].target_recipe_data,
                            i |-> locals[t].i + 1,
                            total_macros |->
                               AddIngredient(locals[t].total_macros,
                                             ingredients[locals[t].i])]]
    /\ UNCHANGED <<RECIPES_DB, MACROS_DB, call, pending, pc, args, ret>>

\* line 202
MacrosReturn(t) ==
    /\ pc[t] = "macros_loop"
    /\ locals[t].i > Len(RECIPES_DB[locals[t].target_recipe_data].ingredients)
    /\ ret' = [ret EXCEPT ![t] = RoundTotals(locals[t].total_macros)]
    /\ pc' = [pc EXCEPT ![t] = "done"]
    /\ UNCHANGED <<RECIPES_DB, MACROS_DB, call, pending, args, locals>>

\* the caller takes the result; the thread is free for its next call
NextCall(t) ==
    /\ pc[t] = "done"
    /\ pc' = [pc EXCEPT ![t] = "idle"]
    /\ args' = [args EXCEPT ![t] = NoCall]
    /\ locals' = [locals EXCEPT ![t] = <<>>]
    /\ ret' = [ret EXCEPT ![t] = <<>>]
    /\ UNCHANGED <<RECIPES_DB, MACROS_DB, call, pending>>

NextConc ==
    \E t \in Threads :
        \/ StartFind(t)
        \/ FindPass(t)
        \/ FindReturn(t)
        \/ StartMacros(t)
        \/ MacrosLookup(t)
        \/ MacrosPass(t)
        \/ MacrosReturn(t)
        \/ NextCall(t)

SpecConc == InitConc /\ [][NextConc]_vars

---------------------------------------------------------------------------
(* Properties *)

LastFind == call.op = "find_recipies"
LastMacros == call.op = "calculate_recipe_macros"
AllStr(l) == \A j \in 1..Len(l) : IsStr(l[j])

\* the lowercased names a record requires, and the lowercased names of a list
RequiredNames(r) == {Lower(r.ingredients[j].name) : j \in 1..Len(r.ingredients)}
AvailableNames(l) == {Lower(l[j].str) : j \in 1..Len(l)}

\* the names of the records with index in idx, in catalog order
NamesInOrder(idx) ==
    [j \in 1..Cardinality(idx) |->
        RECIPES_DB[CHOOSE i \in idx : Cardinality({h \in idx : h <= i}) = j].name]

\* the records with at most k required names outside the list l
Qualifying(l, k) ==
    {i \in 1..Len(RECIPES_DB) :
        Cardinality(RequiredNames(RECIPES_DB[i]) \ AvailableNames(l)) <= k}

\* s can be obtained from t by deleting entries
RECURSIVE IsSubseq(_, _)
IsSubseq(s, t) ==
    IF s = <<>> THEN TRUE
    ELSE IF t = <<>> THEN FALSE
    ELSE IF Head(s) = Head(t) THEN IsSubseq(Tail(s), Tail(t))
    ELSE IsSubseq(s, Tail(t))

\* the records whose name equals the requested one, case-insensitively
NamedRecords(recipe) ==
    {i \in 1..Len(RECIPES_DB) : Lower(RECIPES_DB[i].name) = Lower(recipe)}
FirstNamed(recipe) == CHOOSE i \in NamedRecords(recipe) : \A j \in NamedRecords(recipe) : i <= j

\* a usable entry: a non-empty name, a weight present and not zero, nutrient data
Usable(e) ==
    /\ "name" \in DOMAIN e /\ e.name # <<>>
    /\ "weight_grams" \in DOMAIN e /\ e.weight_grams # 0
    /\ Lower(e.name) \in DOMAIN MACROS_DB

\* nutrient per 100 g times weight, in hundredths, over the entries with index in idx
RECURSIVE HundredthsOver(_, _, _)
HundredthsOver(ingredients, idx, macro) ==
    IF idx = {} THEN 0
    ELSE LET j == CHOOSE j \in idx : TRUE
             per100 == MACROS_DB[Lower(ingredients[j].name)]
         IN  (IF macro \in DOMAIN per100 THEN per100[macro] ELSE 0)
                * ingredients[j].weight_grams
             + HundredthsOver(ingredients, idx \ {j}, macro)

UsableEntries(ingredients) == {j \in 1..Len(ingredients) : Usable(ingredients[j])}

\* tenths is h hundredths rounded to one decimal place
RoundedTo1(tenths, h) == 10 * tenths - h >= -5 /\ 10 * tenths - h <= 5

\* C1: find_recipies returns exactly the names of the records whose set of
\* lowercased required names minus the set of lowercased available names has at
\* most max_missing elements, in catalog order, one entry per matching record.
C1_FindReturnsTheMatches ==
    (LastFind /\ AllStr(call.available)) =>
        call.result = Returned(NamesInOrder(Qualifying(call.available, call.max_missing)))

\* a record listing one ingredient twice (in two cases) matched with nothing
\* allowed missing
C1_Witness ==
    /\ LastFind /\ AllStr(call.available)
    /\ Len(RECIPES_DB) = 1
    /\ Len(RECIPES_DB[1].ingredients) = 2
    /\ Cardinality(RequiredNames(RECIPES_DB[1])) = 1
    /\ call.max_missing = 0
    /\ call.result = Returned(<<Om>>)

C5_EmptyListCountsEntries ==
    (LastFind /\ call.available = <<>>) =>
        \A n \in Range(call.result.value) :
            \E i \in 1..Len(RECIPES_DB) :
                /\ RECIPES_DB[i].name = n
                /\ Len(RECIPES_DB[i].ingredients) <= call.max_missing

\* C5 amended: with an empty list, the recipes returned are those with at most
\* max_missing distinct lowercased required names; a record with no entries is
\* among them whenever max_missing >= 0.
C5_EmptyListCountsDistinctNames ==
    (LastFind /\ call.available = <<>>) =>
        /\ call.result =
              Returned(NamesInOrder({i \in 1..Len(RECIPES_DB) :
                  Cardinality(RequiredNames(RECIPES_DB[i])) <= call.max_missing}))
        /\ \A i \in 1..Len(RECIPES_DB) :
              (RECIPES_DB[i].ingredients = <<>> /\ call.max_missing >= 0)
                 => RECIPES_DB[i].name \in Range(call.result.value)

\* an empty list and a returned record with more entries than max_missing
C5_Witness ==
    /\ LastFind /\ call.available = <<>>
    /\ Len(RECIPES_DB) = 1
    /\ Len(RECIPES_DB[1].ingredients) > call.max_missing
    /\ call.max_missing >= 0
    /\ call.result = Returned(<<RECIPES_DB[1].name>>)

\* str.swapcase() on one code point: the case of a letter changed.  The uppercase
\* of the dotless i (U+0131) is "I", and "I".lower() is "i" (U+0069).
SwapCaseChar(c) ==
    IF IsAsciiUpper(c) THEN c + 32
    ELSE IF IsAsciiLower(c) THEN c - 32
    ELSE IF c = 305 THEN 73
    ELSE c

\* the strings s turns into when the case of some of its letters is changed; of
\* its ASCII letters only when asciiOnly
CaseVariants(s, asciiOnly) ==
    {[i \in 1..Len(s) |->
        IF i \in T /\ (~asciiOnly \/ IsAsciiUpper(s[i]) \/ IsAsciiLower(s[i]))
        THEN SwapCaseChar(s[i]) ELSE s[i]] : T \in SUBSET (1..Len(s))}

\* the lists of strings l turns into in the same way
RECURSIVE ListCaseVariants(_, _)
ListCaseVariants(l, asciiOnly) ==
    IF l = <<>> THEN {<<>>}
    ELSE {<<Str(v)>> \o rest :
            v \in CaseVariants(Head(l).str, asciiOnly),
            rest \in ListCaseVariants(Tail(l), asciiOnly)}

CaseChangeKeepsResult(asciiOnly) ==
    /\ (LastFind /\ AllStr(call.available)) =>
          \A l \in ListCaseVariants(call.available, asciiOnly) :
              find_recipies(l, call.max_missing) = call.result
    /\ LastMacros =>
          \A v \in CaseVariants(call.recipe, asciiOnly) :
              calculate_recipe_macros(v) = call.result

\* C6 as stated: changing the case of any letters of the available names, or of
\* the recipe name, leaves the result unchanged.
C6_AnyCaseChange == CaseChangeKeepsResult(FALSE)

\* C6 amended: changing the case of any ASCII letters of the available names, or
\* of the recipe name, leaves the result unchanged.
C6_AsciiCaseChange == CaseChangeKeepsResult(TRUE)

\* "EG" was passed, a recipe requiring "eg" was returned with nothing missing
C6_Witness ==
    /\ LastFind
    /\ call.available = <<Str(EG)>>
    /\ call.max_missing = 0
    /\ IsReturned(call.result)
    /\ \E i \in 1..Len(RECIPES_DB) :
          /\ RequiredNames(RECIPES_DB[i]) = {eg}
          /\ RECIPES_DB[i].name \in Range(call.result.value)

\* ingredients that may be added to a list: two some recipes use, one none uses
ExtraPool == {Str(eg), Str(dotless), Str(capI)}
ExtraLists == SeqsUpTo(ExtraPool, MaxAvailable)

\* C7: every recipe returned for a list is returned for the list with further
\* ingredients appended, in the same relative order.
C7_ExtraIngredientsKeepMatches ==
    (LastFind /\ AllStr(call.available)) =>
        \A extra \in ExtraLists :
            LET more == find_recipies(call.available \o extra, call.max_missing)
            IN  IsReturned(more) /\ IsSubseq(call.result.value, more.value)

\* a recipe was returned, and appending an ingredient brings a further one
C7_Witness ==
    /\ LastFind /\ AllStr(call.available)
    /\ call.result.value # <<>>
    /\ \E extra \in ExtraLists :
          Len(find_recipies(call.available \o extra, call.max_missing).value)
              > Len(call.result.value)

\* C8: a recipe returned with max_missing = k is returned with every larger
\* max_missing.
C8_LargerMaxMissingKeepsMatches ==
    (LastFind /\ AllStr(call.available)) =>
        \A k \in (call.max_missing + 1)..(MaxMissing + 1) :
            IsSubseq(call.result.value, find_recipies(call.available, k).value)

\* a recipe returned with something missing, and a larger max_missing left to try
C8_Witness ==
    /\ LastFind /\ AllStr(call.available)
    /\ call.max_missing = 1
    /\ \E i \in 1..Len(RECIPES_DB) :
          /\ Cardinality(RequiredNames(RECIPES_DB[i]) \ AvailableNames(call.available)) = 1
          /\ RECIPES_DB[i].name \in Range(call.result.value)

RunAlone(a) ==
    IF a.op = "find_recipies" THEN find_recipies(a.available, a.max_missing)
    ELSE calculate_recipe_macros(a.recipe)

\* C9: under any interleaving of concurrent calls the catalog and the nutrient
\* table are never modified, and every call returns what it returns when run
\* alone with the same arguments.
C9_CallsDoNotInterfere ==
    /\ [](\A t \in Threads : pc[t] = "done" => ret[t] = RunAlone(args[t]))
    /\ [][RECIPES_DB' = RECIPES_DB /\ MACROS_DB' = MACROS_DB]_vars

\* one call returned totals while another call was inside its loop
C9_Witness ==
    \E t, u \in Threads :
        /\ t # u
        /\ pc[t] = "done" /\ args[t].op = "calculate_recipe_macros"
        /\ DOMAIN ret[t] = Macros /\ ret[t].protein > 0
        /\ pc[u] = "macros_loop" /\ locals[u].i > 1

====
